---- MODULE Spec2Model ----
(***************************************************************************)
(* Batch acquisition optimisation of GPyOpt, GPyOpt/core/optimization.py.  *)
(*                                                                         *)
(* The domain is one-dimensional, the box bounds = [(0, 2)], discretised   *)
(* to its integer points.  Real quantities are fixed-point numbers:        *)
(*   - outputs, posterior means, Min, standard deviations, L and gradient  *)
(*     norms are counted in hundredths (L = 0.1 is 10, L = 100 is 10000);  *)
(*   - variances are counted in units of 1e-4, so that their square root   *)
(*     is a standard deviation in hundredths;                              *)
(*   - values of the normal cdf are counted in percent, so a penalised     *)
(*     acquisition value over a batch of k points carries a factor 100^k.  *)
(* An optional argument (Python's None) is the empty tuple, a given value  *)
(* v is the one-element tuple <<v>>.                                       *)
(***************************************************************************)
EXTENDS Integers, Sequences, FiniteSets, TLC

VARIABLES
    pc,       \* position of the running call
    call,     \* the function called and its arguments
    model,    \* the caller's surrogate model object
    loc,      \* local variables of a running batch strategy
    calls,    \* the single-point, estimator calls made so far, in order
    ret,      \* the returned value, once returned
    printed,  \* the messages printed
    last      \* what the last single-point operation did

vars == <<pc, call, model, loc, calls, ret, printed, last>>

----------------------------------------------------------------------------
(* Bounds of the model *)

MaxBatch == 3
MaxRestarts == 2

(* Program constants *)

NSamplesL == 5
LThreshold == 10
LDefault == 10000
VarFloor == 1

----------------------------------------------------------------------------
(* Values *)

Domain == 0..2

upper == CHOOSE x \in Domain : \A y \in Domain : y <= x

None == << >>

Some(v) == << v >>

Abs(a) == IF a < 0 THEN -a ELSE a

sign(a) == IF a < 0 THEN -1 ELSE IF a > 0 THEN 1 ELSE 0

Isqrt(n) == CHOOSE r \in 0..n : r * r <= n /\ n < (r + 1) * (r + 1)

SeqMin(s) == CHOOSE v \in {s[i] : i \in 1..Len(s)} : \A j \in 1..Len(s) : v <= s[j]

argmin_last(s) ==
    CHOOSE i \in 1..Len(s) :
        /\ \A j \in 1..Len(s) : s[i] <= s[j]
        /\ \A j \in (i + 1)..Len(s) : s[j] > s[i]

argmin(s) ==
    CHOOSE i \in 1..Len(s) :
        /\ \A j \in 1..Len(s) : s[i] <= s[j]
        /\ \A j \in 1..(i - 1) : s[j] > s[i]

vstack(A, row) == Append(A, row)

unique(s) == {s[i] : i \in 1..Len(s)}

HasDuplicate(s) == \E i, j \in 1..Len(s) : i < j /\ s[i] = s[j]

BatchesUpTo(n) == UNION {[1..m -> Domain] : m \in 0..n}

----------------------------------------------------------------------------
(* The external collaborators: surrogate model, acquisition, samplers,     *)
(* local optimiser, normal cdf.                                            *)

\* A noise-free surrogate with n observed points, posterior mean
\* a * (upper - x)^2 and posterior variance zero at the observed points.
Surrogate(n, a) ==
    LET X == [i \in 1..n |-> IF i = n THEN upper ELSE i - 1]
    IN  [X |-> X,
         Y |-> [i \in 1..n |-> a * (upper - X[i]) * (upper - X[i])],
         coef |-> a,
         v |-> 25]

Models == {Surrogate(n, a) : n \in 1..2, a \in {2, 5}}

predict(m, x) ==
    [mean |-> m.coef * (upper - x) * (upper - x),
     var  |-> IF \E i \in 1..Len(m.X) : m.X[i] = x THEN 0 ELSE m.v]

predictive_gradients(m, x) == -2 * m.coef * (upper - x)

\* An acquisition with one well of depth h at c (lower is more promising).
Well(c, h) == [x \in Domain |-> IF h > Abs(x - c) THEN Abs(x - c) - h ELSE 0]

Acquisitions == {Well(c, h) : c \in {0, upper}, h \in {0, 2}}

samples_multidimensional_uniform(K) == [1..K -> Domain]

multigrid(K) ==
    {[i \in 1..K |-> IF K = 1 THEN 0 ELSE ((i - 1) * upper) \div (K - 1)]}

\* scipy.optimize.minimize returns its best iterate, converged or not: any
\* point of the box.
minimize(x0) == Domain

\* scipy.stats.norm.cdf of zNum/zDen (zDen > 0), in percent, read at the
\* integer below the argument.
norm_cdf(zNum, zDen) ==
    LET q == zNum \div zDen
    IN  IF q <= -3 THEN 0
        ELSE IF q = -2 THEN 2
        ELSE IF q = -1 THEN 16
        ELSE IF q = 0 THEN 50
        ELSE IF q = 1 THEN 84
        ELSE IF q = 2 THEN 98
        ELSE 100

----------------------------------------------------------------------------
(* estimate_L, estimate_Min *)

df(x, m) ==
    LET dmdx == predictive_gradients(m, x)
        res == Isqrt(dmdx * dmdx)
    IN  -res

L_floor_inverted(L) == IF L < LThreshold THEN L ELSE LDefault

L_floor(L) == IF L < LThreshold THEN LDefault ELSE L

\* The runs of estimate_L(model, bounds, alpha): one per draw of the samples
\* and per result of the local optimiser.
estimate_L(m) ==
    UNION {
        LET pred_samples == [i \in 1..NSamplesL |-> df(samples[i], m)]
            x0 == samples[argmin(pred_samples)]
        IN  { LET minusL == df(xs, m)
                  L == -minusL
              IN  [x0 |-> x0, x |-> xs, raw |-> L, L |-> L_floor(L)]
              : xs \in minimize(x0) }
        : samples \in samples_multidimensional_uniform(NSamplesL) }

estimate_Min(m) == SeqMin(m.Y)

----------------------------------------------------------------------------
(* hammer_function, penalized_acquisition *)

hammer_function(x, x0, L, Min, m) ==
    LET mean == predict(m, x0).mean
        pred0 == predict(m, x0).var
        pred == IF pred0 < VarFloor THEN VarFloor ELSE pred0
        s == Isqrt(pred)
        dist == Isqrt((x - x0) * (x - x0))
        \* (dist - r_x0) / s_x0 with r_x0 = (mean - Min)/L and s_x0 = s/L,
        \* numerator and denominator multiplied by L > 0
    IN  norm_cdf(dist * L - (mean - Min), s)

RECURSIVE hammer_loop(_, _, _, _, _, _, _)
hammer_loop(fval, x, X_batch, i, L, Min, m) ==
    IF i > Len(X_batch)
    THEN [fval |-> fval, hammers |-> 0]
    ELSE LET r == hammer_loop(fval * hammer_function(x, X_batch[i], L, Min, m),
                              x, X_batch, i + 1, L, Min, m)
         IN  [fval |-> r.fval, hammers |-> r.hammers + 1]

penalized_acquisition_no_offset(x, acquisition, m, X_batch, L, Min) ==
    LET fval0 == -acquisition[x]
        pen == IF X_batch # None
               THEN hammer_loop(fval0, x, X_batch[1], 1, L[1], Min[1], m)
               ELSE [fval |-> fval0, hammers |-> 0]
    IN  [val |-> -pen.fval, hammers |-> pen.hammers]

\* val: the returned value; hammers: the evaluations of hammer_function made.
\* `X_batch != None` is read as the identity test it was written as (the
\* scalar result of the numpy releases the module was written for).
penalized_acquisition(x, acquisition, m, X_batch, L, Min) ==
    LET sur_min == SeqMin([i \in 1..Len(m.X) |-> -acquisition[m.X[i]]])
        fval0 == -acquisition[x] - sign(sur_min) * Abs(sur_min)
        pen == IF X_batch # None
               THEN hammer_loop(fval0, x, X_batch[1], 1, L[1], Min[1], m)
               ELSE [fval |-> fval0, hammers |-> 0]
    IN  [val |-> -pen.fval, hammers |-> pen.hammers]

----------------------------------------------------------------------------
(* The single-point optimisers.  Each is the set of its possible runs, one *)
(* per draw of the samples and per result of the local optimiser.          *)

Samples(method_type, K) ==
    IF method_type = "random"
    THEN samples_multidimensional_uniform(K)
    ELSE multigrid(K)

Sampler(method_type) ==
    IF method_type = "random" THEN "samples_multidimensional_uniform" ELSE "multigrid"

Objective(x, acquisition, m, X_batch, L, Min) ==
    penalized_acquisition(x, acquisition, m, X_batch, L, Min).val

fast_acquisition_optimization(acquisition, restarts, m, method_type, X_batch, L, Min) ==
    UNION {
        LET pred_samples == [i \in 1..restarts |-> acquisition[samples[i]]]
            x0 == samples[argmin(pred_samples)]
        IN  { [status |-> "ok", family |-> "fast", sampler |-> Sampler(method_type),
               samples |-> samples, starts |-> <<x0>>, mins |-> <<x>>,
               fmins |-> <<Objective(x, acquisition, m, X_batch, L, Min)>>,
               res |-> Some(x)]
              : x \in minimize(x0) }
        : samples \in Samples(method_type, restarts) }

full_acquisition_optimization(acquisition, restarts, m, method_type, X_batch, L, Min) ==
    UNION {
        { LET fmins == [k \in 1..restarts |->
                           Objective(mins[k], acquisition, m, X_batch, L, Min)]
          IN  [status |-> "ok", family |-> "full", sampler |-> Sampler(method_type),
               samples |-> samples, starts |-> [k \in 1..restarts |-> samples[k]],
               mins |-> mins, fmins |-> fmins,
               res |-> Some(mins[argmin(fmins)])]
          : mins \in {f \in [1..restarts -> Domain] :
                        \A k \in 1..restarts : f[k] \in minimize(samples[k])} }
        : samples \in Samples(method_type, restarts) }

\* `res` is never bound: return res raises UnboundLocalError.
Unbound ==
    [status |-> "UnboundLocalError", family |-> "none", sampler |-> "none",
     samples |-> << >>, starts |-> << >>, mins |-> << >>, fmins |-> << >>,
     res |-> None]

dispatch_default_brute(acqu_optimize_method) ==
    IF acqu_optimize_method = "random"
    THEN [family |-> "full", method_type |-> "random"]
    ELSE IF acqu_optimize_method = "fast_brute"
    THEN [family |-> "fast", method_type |-> "brute"]
    ELSE IF acqu_optimize_method = "fast_random"
    THEN [family |-> "fast", method_type |-> "random"]
    ELSE [family |-> "full", method_type |-> "brute"]

\* The if/elif chain of optimize_acquisition: the optimiser and the
\* method_type it is handed; no branch is taken for another selector.
dispatch(acqu_optimize_method) ==
    IF acqu_optimize_method = "brute"
    THEN [family |-> "full", method_type |-> "brute"]
    ELSE IF acqu_optimize_method = "random"
    THEN [family |-> "full", method_type |-> "random"]
    ELSE IF acqu_optimize_method = "fast_brute"
    THEN [family |-> "fast", method_type |-> "brute"]
    ELSE IF acqu_optimize_method = "fast_random"
    THEN [family |-> "fast", method_type |-> "random"]
    ELSE [family |-> "none", method_type |-> "none"]

optimize_acquisition(acquisition, restarts, method, m, X_batch, L, Min) ==
    LET d == dispatch(method)
    IN  IF d.family = "full"
        THEN full_acquisition_optimization(acquisition, restarts, m, d.method_type,
                                           X_batch, L, Min)
        ELSE IF d.family = "fast"
        THEN fast_acquisition_optimization(acquisition, restarts, m, d.method_type,
                                           X_batch, L, Min)
        ELSE {Unbound}

\* What a caller of optimize_acquisition sees of a run: the optimiser and the
\* sampler used, how many samples were drawn and how many local optimisations
\* were run, and the point returned.
Seen(o) ==
    [status |-> o.status, family |-> o.family, sampler |-> o.sampler,
     n_samples |-> Len(o.samples), n_minimize |-> Len(o.starts), res |-> o.res]

\* The set {Seen(o) : o \in optimize_acquisition(...)}, without enumerating the
\* runs (SeenAgrees states that the two sets are the same).
optimize_acquisition_seen(acquisition, restarts, method, m, X_batch, L, Min) ==
    LET d == dispatch(method)
    IN  IF d.family = "none"
        THEN {Seen(Unbound)}
        ELSE {[status |-> "ok", family |-> d.family, sampler |-> Sampler(d.method_type),
               n_samples |-> restarts,
               n_minimize |-> IF d.family = "full" THEN restarts ELSE 1,
               res |-> Some(x)]
              : x \in UNION {minimize(x0) : x0 \in Domain}}

----------------------------------------------------------------------------
(* Inputs of the calls *)

Methods == {"brute", "random", "fast_brute", "fast_random", "grid"}

NoCall == [fn |-> "none"]

NoLocals ==
    [X_batch |-> << >>, k |-> 0, L |-> None, Min |-> None,
     X |-> << >>, Y |-> << >>, X_new |-> None, stopped |-> FALSE]

\* The L values estimate_L can return for a model.
LValues(m) == {o.L : o \in estimate_L(m)}

\* The (X_batch, L, Min) a single-point operation is given: nothing for the
\* first slot, the batch so far with the round's estimates afterwards.
SlotArgs(m, n) ==
    {[X_batch |-> None, L |-> None, Min |-> None]}
    \cup {[X_batch |-> Some(b), L |-> Some(l), Min |-> Some(estimate_Min(m))]
          : b \in BatchesUpTo(n), l \in LValues(m)}

Init ==
    /\ pc = "idle"
    /\ call = NoCall
    /\ model \in Models
    /\ loc = NoLocals
    /\ calls = << >>
    /\ ret = None
    /\ printed = << >>
    /\ last = [op |-> "none"]

----------------------------------------------------------------------------
(* Calls of the single-point operations *)

call_penalized_acquisition ==
    /\ pc = "idle"
    /\ \E acquisition \in Acquisitions, m \in Models, x \in Domain :
       \E a \in SlotArgs(m, MaxBatch - 1) :
          LET r == penalized_acquisition(x, acquisition, m, a.X_batch, a.L, a.Min)
          IN  /\ call' = [fn |-> "penalized_acquisition", x |-> x,
                          acquisition |-> acquisition,
                          X_batch |-> a.X_batch, L |-> a.L, Min |-> a.Min]
              /\ model' = m
              /\ last' = [op |-> "penalized_acquisition", hammers |-> r.hammers]
              /\ ret' = Some(r.val)
    /\ pc' = "done"
    /\ UNCHANGED <<loc, calls, printed>>

call_estimate_L ==
    /\ pc = "idle"
    /\ \E m \in Models :
       \E o \in estimate_L(m) :
          /\ call' = [fn |-> "estimate_L"]
          /\ model' = m
          /\ last' = [op |-> "estimate_L", x0 |-> o.x0, x |-> o.x, raw |-> o.raw]
          /\ ret' = Some(o.L)
    /\ pc' = "done"
    /\ UNCHANGED <<loc, calls, printed>>

call_optimize_acquisition ==
    /\ pc = "idle"
    /\ \E acquisition \in Acquisitions, m \in Models,
          restarts \in 1..MaxRestarts, method \in Methods :
       \E a \in SlotArgs(m, 1) :
       \E o \in optimize_acquisition(acquisition, restarts, method, m,
                                     a.X_batch, a.L, a.Min) :
          /\ call' = [fn |-> "optimize_acquisition", acquisition |-> acquisition,
                      acqu_optimize_restarts |-> restarts,
                      acqu_optimize_method |-> method,
                      X_batch |-> a.X_batch, L |-> a.L, Min |-> a.Min]
          /\ model' = m
          /\ last' = o
          /\ ret' = o.res
          /\ pc' = IF o.status = "ok" THEN "done" ELSE "error"
    /\ UNCHANGED <<loc, calls, printed>>

NextPoint ==
    \/ call_penalized_acquisition
    \/ call_estimate_L
    \/ call_optimize_acquisition

SpecPoint == Init /\ [][NextPoint]_vars

----------------------------------------------------------------------------
(* The batch strategies.  A strategy's first statement draws its inputs;   *)
(* each later action is one statement or one loop iteration of its body.   *)

OptCall(X_batch, L, Min, o) ==
    [fn |-> "optimize_acquisition", X_batch |-> X_batch, L |-> L, Min |-> Min,
     family |-> o.family, sampler |-> o.sampler,
     n_samples |-> o.n_samples, n_minimize |-> o.n_minimize, ret |-> o.res]

EstCall(fn, value) ==
    [fn |-> fn, X_batch |-> None, L |-> None, Min |-> None,
     family |-> "none", sampler |-> "none",
     n_samples |-> 0, n_minimize |-> 0, ret |-> Some(value)]

BatchCall(fn, acquisition, restarts, method, m, n_inbatch) ==
    [fn |-> fn, acquisition |-> acquisition, acqu_optimize_restarts |-> restarts,
     acqu_optimize_method |-> method, model |-> m, n_inbatch |-> n_inbatch]

\* Lines 14-15, 36-37 and 67-69: the first point is the unpenalised optimum.
first_point(fn, next_pc, X, Y) ==
    /\ pc = "idle"
    /\ \E acquisition \in Acquisitions, m \in Models, restarts \in 1..MaxRestarts,
          method \in Methods, n_inbatch \in 1..MaxBatch :
       \E o \in optimize_acquisition_seen(acquisition, restarts, method, m,
                                          None, None, None) :
          /\ call' = BatchCall(fn, acquisition, restarts, method, m, n_inbatch)
          /\ model' = m
          /\ calls' = <<OptCall(None, None, None, o)>>
          /\ IF o.status = "ok"
             THEN /\ loc' = [NoLocals EXCEPT !.X_batch = <<o.res[1]>>, !.k = 1,
                                             !.X = X[m], !.Y = Y[m], !.X_new = o.res]
                  /\ pc' = next_pc
             ELSE /\ loc' = NoLocals
                  /\ pc' = "error"
    /\ UNCHANGED <<ret, printed, last>>

return_batch(at) ==
    /\ pc = at
    /\ loc.stopped \/ ~(loc.k < call.n_inbatch)
    /\ ret' = Some(loc.X_batch)
    /\ pc' = "done"
    /\ UNCHANGED <<call, model, loc, calls, printed, last>>

(* random_batch_optimization *)

random_first == first_point("random_batch_optimization", "random_loop",
                            [m \in Models |-> << >>], [m \in Models |-> << >>])

random_fill_skips(X_batch, new_sample) == X_batch

random_fill(X_batch, new_sample) == vstack(X_batch, new_sample)

random_loop ==
    /\ pc = "random_loop"
    /\ loc.k < call.n_inbatch
    /\ \E new_sample \in samples_multidimensional_uniform(1) :
          loc' = [loc EXCEPT !.X_batch = random_fill(loc.X_batch, new_sample[1]),
                             !.k = loc.k + 1]
    /\ UNCHANGED <<pc, call, model, calls, ret, printed, last>>

random_return == return_batch("random_loop")

(* adaptive_batch_optimization *)

adaptive_first == first_point("adaptive_batch_optimization", "adaptive_estimate",
                              [m \in Models |-> << >>], [m \in Models |-> << >>])

adaptive_estimate ==
    /\ pc = "adaptive_estimate"
    /\ IF call.n_inbatch > 1
       THEN \E o \in estimate_L(model) :
               LET Min == estimate_Min(model)
               IN  /\ loc' = [loc EXCEPT !.L = Some(o.L), !.Min = Some(Min)]
                   /\ calls' = calls \o <<EstCall("estimate_L", o.L),
                                          EstCall("estimate_Min", Min)>>
       ELSE UNCHANGED <<loc, calls>>
    /\ pc' = "adaptive_loop"
    /\ UNCHANGED <<call, model, ret, printed, last>>

adaptive_slot_last_only(X_batch, L, Min) ==
    [X_batch |-> Some(<<X_batch[Len(X_batch)]>>), L |-> L, Min |-> Min]

\* Line 43: what the next slot's optimisation is given.
adaptive_slot(X_batch, L, Min) == [X_batch |-> Some(X_batch), L |-> L, Min |-> Min]

adaptive_loop ==
    /\ pc = "adaptive_loop"
    /\ loc.k < call.n_inbatch
    /\ LET a == adaptive_slot(loc.X_batch, loc.L, loc.Min)
       IN  \E o \in optimize_acquisition_seen(call.acquisition,
                                              call.acqu_optimize_restarts,
                                              call.acqu_optimize_method, model,
                                              a.X_batch, a.L, a.Min) :
              /\ loc' = [loc EXCEPT !.X_batch = vstack(loc.X_batch, o.res[1]),
                                    !.k = loc.k + 1]
              /\ calls' = Append(calls, OptCall(a.X_batch, a.L, a.Min, o))
    /\ UNCHANGED <<pc, call, model, ret, printed, last>>

adaptive_return == return_batch("adaptive_loop")

(* hybrid_batch_optimization *)

\* GPyOpt.methods.BayesianOptimization(X, Y, ...): fitting the refit surrogate
\* can fail with LinAlgError once two of its inputs coincide.
BayesianOptimization(X, Y) ==
    IF HasDuplicate(X) THEN {"LinAlgError", "ok"} ELSE {"ok"}

\* batchBO.suggested_sample after start_optimization(max_iter = 0, n_inbatch = 1).
suggested_sample == Domain

hybrid_first == first_point("hybrid_batch_optimization", "hybrid_loop",
                            [m \in Models |-> m.X], [m \in Models |-> m.Y])

hybrid_augment_in_place(mdl, X, Y, X_new) ==
    [model |-> [mdl EXCEPT !.X = vstack(mdl.X, X_new),
                           !.Y = vstack(mdl.Y, predict(mdl, X_new).mean)],
     X |-> vstack(X, X_new),
     Y |-> vstack(Y, predict(mdl, X_new).mean)]

\* Lines 71-72: np.vstack builds new arrays, the model's own are left alone.
hybrid_augment(mdl, X, Y, X_new) ==
    [model |-> mdl,
     X |-> vstack(X, X_new),
     Y |-> vstack(Y, predict(mdl, X_new).mean)]

hybrid_on_error_raise(X_batch) == << >>

\* Lines 82-84 and 96: what is returned once the refit has failed.
hybrid_on_error(X_batch) == X_batch

hybrid_loop ==
    /\ pc = "hybrid_loop"
    /\ ~loc.stopped
    /\ loc.k < call.n_inbatch
    /\ LET aug == hybrid_augment(model, loc.X, loc.Y, loc.X_new[1])
       IN  /\ model' = aug.model
           /\ \E outcome \in BayesianOptimization(aug.X, aug.Y) :
                IF outcome = "LinAlgError"
                THEN /\ printed' = Append(printed,
                                     "Optimization stopped. Two equal points selected.")
                     /\ loc' = [loc EXCEPT !.X = aug.X, !.Y = aug.Y, !.stopped = TRUE,
                                           !.X_batch = hybrid_on_error(loc.X_batch)]
                ELSE /\ \E X_new \in suggested_sample :
                           loc' = [loc EXCEPT !.X = aug.X, !.Y = aug.Y,
                                              !.X_new = Some(X_new),
                                              !.X_batch = vstack(loc.X_batch, X_new),
                                              !.k = loc.k + 1]
                     /\ UNCHANGED printed
    /\ UNCHANGED <<pc, call, calls, ret, last>>

hybrid_return == return_batch("hybrid_loop")

(* sm_batch_optimization *)

Labels == 1..2

\* WKmeans(X, weights, k): the k centroids of a weighted k-means.
WKmeans(X, weights, k) == [1..k -> Domain]

\* The weights once the groups in `done` are computed (1: computed, 0: not
\* yet); the numbers compute_w gives them are not modelled.
sm_weights(batch_labels, done) ==
    [i \in 1..Len(batch_labels) |-> IF batch_labels[i] \in done THEN 1 ELSE 0]

sm_batch_optimization ==
    /\ pc = "idle"
    /\ \E m \in Models, n_inbatch \in 1..MaxBatch :
       \E batch_labels \in [1..Len(m.X) -> Labels] :
          LET n == Len(m.X)
              groups == unique(batch_labels)
              weights == sm_weights(batch_labels, groups)
          IN  /\ call' = [fn |-> "sm_batch_optimization", model |-> m,
                          n_inbatch |-> n_inbatch, batch_labels |-> batch_labels]
              /\ model' = m
              /\ printed' = IF n < n_inbatch
                            THEN <<"Initial points should be larger than the batch size">>
                            ELSE << >>
              /\ last' = [op |-> "sm_batch_optimization", weights |-> weights,
                          WKmeans |-> Cardinality(groups)]
              /\ \E X_batch \in WKmeans(m.X, weights, n_inbatch) :
                    ret' = Some(X_batch)
    /\ pc' = "done"
    /\ UNCHANGED <<loc, calls>>

NextBatch ==
    \/ random_first
    \/ random_loop
    \/ random_return
    \/ adaptive_first
    \/ adaptive_estimate
    \/ adaptive_loop
    \/ adaptive_return
    \/ hybrid_first
    \/ hybrid_loop
    \/ hybrid_return
    \/ sm_batch_optimization

SpecBatch == Init /\ [][NextBatch]_vars

Next == NextPoint \/ NextBatch

Spec == Init /\ [][Next]_vars

\* The runs of optimize_acquisition, as its callers see them, are those of
\* optimize_acquisition_seen, for every argument the calls draw.
SeenAgrees ==
    pc = "idle" =>
        \A acquisition \in Acquisitions, m \in Models,
           restarts \in 1..MaxRestarts, method \in Methods :
           \A a \in SlotArgs(m, 1) :
              {Seen(o) : o \in optimize_acquisition(acquisition, restarts, method, m,
                                                     a.X_batch, a.L, a.Min)}
              = optimize_acquisition_seen(acquisition, restarts, method, m,
                                          a.X_batch, a.L, a.Min)

----------------------------------------------------------------------------
(* Properties *)

Strategies ==
    {"random_batch_optimization", "adaptive_batch_optimization",
     "hybrid_batch_optimization"}

ValidMethods == {"brute", "random", "fast_brute", "fast_random"}

\* batch_size >= 1 and a known method selector; for clustering, batch_size no
\* larger than the number of observed points.
ValidInputs ==
    /\ call.n_inbatch >= 1
    /\ call.fn \in Strategies => call.acqu_optimize_method \in ValidMethods
    /\ call.fn = "sm_batch_optimization" => call.n_inbatch <= Len(call.model.X)

Returned ==
    /\ pc = "done"
    /\ call.fn \in Strategies \cup {"sm_batch_optimization"}

\* C1 as stated: every one of the four batch strategies, called with valid
\* inputs, returns exactly batch_size points.
C1_BatchSizeExact ==
    (Returned /\ ValidInputs) => Len(ret[1]) = call.n_inbatch

\* C1 amended: the random, penalisation and clustering strategies return
\* exactly batch_size points; the refit strategy returns exactly batch_size
\* points unless a refit failed, and then the k points selected before the
\* failure, 1 <= k < batch_size.
C1_BatchSize ==
    (Returned /\ ValidInputs) =>
        IF call.fn = "hybrid_batch_optimization" /\ loc.stopped
        THEN /\ Len(ret[1]) = loc.k
             /\ 1 <= loc.k
             /\ loc.k < call.n_inbatch
        ELSE Len(ret[1]) = call.n_inbatch

C1_Witness ==
    /\ Returned
    /\ ValidInputs
    /\ call.fn = "hybrid_batch_optimization"
    /\ call.n_inbatch = 3
    /\ loc.stopped
    /\ Len(ret[1]) = 2

\* C2: sm_batch_optimization called with batch_size above the number of
\* observed points reports a usage error and aborts: WKmeans is never invoked
\* and no batch is returned.
C2_ClusteringPrecondition ==
    (/\ pc # "idle"
     /\ call.fn = "sm_batch_optimization"
     /\ Len(call.model.X) < call.n_inbatch)
    => /\ printed # << >>
       /\ last.WKmeans = 0
       /\ ret = None
       /\ pc = "error"

\* C3: in hybrid_batch_optimization, once the refit surrogate fails with k
\* points selected (1 <= k < batch_size), the loop is over, no error reaches
\* the caller and the call returns exactly those k points in selection order.
C3_RefitEarlyStop ==
    (call.fn = "hybrid_batch_optimization" /\ pc # "idle" /\ loc.stopped) =>
        LET N == Len(call.model.X)
        IN  /\ pc \in {"hybrid_loop", "done"}
            /\ 1 <= loc.k
            /\ loc.k < call.n_inbatch
            /\ Len(loc.X) = N + loc.k
            /\ loc.X_batch = SubSeq(loc.X, N + 1, N + loc.k)
            /\ ~ENABLED hybrid_loop
            /\ pc = "done" => ret = Some(SubSeq(loc.X, N + 1, N + loc.k))

C3_Witness ==
    /\ call.fn = "hybrid_batch_optimization"
    /\ pc = "done"
    /\ loc.stopped
    /\ call.n_inbatch = 3
    /\ loc.k = 2
    /\ ret[1][1] # ret[1][2]

\* C4: hybrid_batch_optimization never changes the caller's model: at every
\* point of the call the model holds the X and Y it was passed with, and each
\* placeholder observation is appended to the working copy only.
C4_CallerModelUntouched ==
    (call.fn = "hybrid_batch_optimization" /\ pc # "idle") =>
        LET N == Len(call.model.X)
            appended == IF loc.stopped THEN loc.k ELSE loc.k - 1
        IN  /\ model.X = call.model.X
            /\ model.Y = call.model.Y
            /\ pc # "error" => Len(loc.X) = N + appended
            /\ pc # "error" => Len(loc.Y) = N + appended
            /\ pc # "error" => SubSeq(loc.X, 1, N) = model.X
            /\ pc # "error" => SubSeq(loc.Y, 1, N) = model.Y
            /\ \A i \in 1..appended :
                  /\ loc.X[N + i] = loc.X_batch[i]
                  /\ loc.Y[N + i] = predict(call.model, loc.X_batch[i]).mean

C4_Witness ==
    /\ call.fn = "hybrid_batch_optimization"
    /\ pc = "done"
    /\ ~loc.stopped
    /\ Len(loc.X) = Len(model.X) + 2
    /\ model = call.model

\* C5: estimate_L never returns a value below 0.1: a raw estimate (the largest
\* gradient norm the local optimiser found) below 0.1 is returned as 100, any
\* other raw estimate is returned unchanged.
C5_LipschitzFloor ==
    (call.fn = "estimate_L" /\ pc = "done") =>
        LET raw == Abs(predictive_gradients(model, last.x))
        IN  /\ ret[1] >= 10
            /\ raw < 10 => ret[1] = 10000
            /\ raw >= 10 => ret[1] = raw

C5_Witness ==
    /\ call.fn = "estimate_L"
    /\ pc = "done"
    /\ Abs(predictive_gradients(model, last.x)) \in 1..9
    /\ ret[1] = 10000

\* C6: with no batch points so far penalized_acquisition is the raw
\* acquisition plus the minimum of the negated acquisition over the observed
\* points, and hammer_function is not evaluated.
C6_PenalizationIdentity ==
    (/\ call.fn = "penalized_acquisition"
     /\ pc = "done"
     /\ call.X_batch \in {None, Some(<< >>)})
    => LET negated == {-call.acquisition[model.X[i]] : i \in 1..Len(model.X)}
           least == CHOOSE v \in negated : \A w \in negated : v <= w
       IN  /\ ret[1] = call.acquisition[call.x] + least
           /\ last.hammers = 0

C6_Witness ==
    /\ call.fn = "penalized_acquisition"
    /\ pc = "done"
    /\ call.X_batch = None
    /\ \A i \in 1..Len(model.X) : call.acquisition[model.X[i]] < 0
    /\ call.acquisition[call.x] # 0

\* C7: adaptive_batch_optimization with batch_size > 1 makes, in this order,
\* the unpenalised optimisation, one estimate_L, one estimate_Min, and then
\* batch_size - 1 optimisations, the k-th given exactly the k points chosen
\* so far, in order, and the L and Min estimated at the start.
C7_AdaptiveOrder ==
    (/\ call.fn = "adaptive_batch_optimization"
     /\ pc = "done"
     /\ call.n_inbatch > 1)
    => LET n == call.n_inbatch
       IN  /\ Len(calls) = n + 2
           /\ calls[1].fn = "optimize_acquisition"
           /\ calls[1].X_batch = None
           /\ calls[1].L = None
           /\ calls[1].Min = None
           /\ calls[2].fn = "estimate_L"
           /\ calls[3].fn = "estimate_Min"
           /\ ret[1][1] = calls[1].ret[1]
           /\ \A k \in 1..(n - 1) :
                 /\ calls[3 + k].fn = "optimize_acquisition"
                 /\ calls[3 + k].X_batch = Some(SubSeq(ret[1], 1, k))
                 /\ calls[3 + k].L = calls[2].ret
                 /\ calls[3 + k].Min = calls[3].ret
                 /\ ret[1][k + 1] = calls[3 + k].ret[1]

C7_Witness ==
    /\ call.fn = "adaptive_batch_optimization"
    /\ pc = "done"
    /\ call.n_inbatch = 3
    /\ ret[1][1] # ret[1][2]
    /\ calls[5].X_batch = Some(<<ret[1][1], ret[1][2]>>)

\* C8: the fast optimiser seeds its one local refinement at the candidate
\* whose penalised acquisition (under the batch so far, L and Min) is lowest
\* among the drawn candidates.
C8_FastSeedPenalized ==
    (/\ call.fn = "optimize_acquisition"
     /\ pc = "done"
     /\ last.family = "fast")
    => /\ Len(last.starts) = 1
       /\ \E i \in 1..Len(last.samples) : last.starts[1] = last.samples[i]
       /\ \A i \in 1..Len(last.samples) :
             Objective(last.starts[1], call.acquisition, model,
                       call.X_batch, call.L, call.Min)
             <= Objective(last.samples[i], call.acquisition, model,
                          call.X_batch, call.L, call.Min)

\* C9: the full optimiser runs one local optimisation from each of the
\* `restarts` candidates and returns the result with the lowest objective
\* value, the one of smallest restart index when several reach it.
C9_FullBestOfRestarts ==
    (/\ call.fn = "optimize_acquisition"
     /\ pc = "done"
     /\ last.family = "full")
    => LET R == call.acqu_optimize_restarts
       IN  /\ Len(last.samples) = R
           /\ last.starts = last.samples
           /\ Len(last.mins) = R
           /\ \A k \in 1..R :
                 last.fmins[k] = Objective(last.mins[k], call.acquisition, model,
                                           call.X_batch, call.L, call.Min)
           /\ \E b \in 1..R :
                 /\ ret = Some(last.mins[b])
                 /\ \A j \in 1..R : last.fmins[b] <= last.fmins[j]
                 /\ \A j \in 1..(b - 1) : last.fmins[j] > last.fmins[b]

C9_Witness ==
    /\ call.fn = "optimize_acquisition"
    /\ pc = "done"
    /\ last.family = "full"
    /\ call.acqu_optimize_restarts = 2
    /\ call.X_batch # None
    /\ last.fmins[1] = last.fmins[2]
    /\ last.mins[1] # last.mins[2]
    /\ ret = Some(last.mins[1])

ExpectedFamily(method) ==
    IF method \in {"brute", "random"} THEN "full"
    ELSE IF method \in {"fast_brute", "fast_random"} THEN "fast"
    ELSE "none"

ExpectedSampler(method) ==
    IF method \in {"brute", "fast_brute"} THEN "multigrid"
    ELSE IF method \in {"random", "fast_random"} THEN "samples_multidimensional_uniform"
    ELSE "none"

\* C10: optimize_acquisition sends 'brute' and 'random' to the full optimiser,
\* 'fast_brute' and 'fast_random' to the fast one, on grid samples for the
\* 'brute' selectors and random samples for the 'random' ones; with any other
\* selector it draws no sample, runs no local optimisation and ends in an
\* error, so a batch strategy given such a selector fails with no point chosen.
C10_Dispatch ==
    /\ (call.fn = "optimize_acquisition" /\ pc # "idle") =>
          LET method == call.acqu_optimize_method
          IN  /\ last.family = ExpectedFamily(method)
              /\ last.sampler = ExpectedSampler(method)
              /\ method \in {"brute", "fast_brute"} =>
                    last.samples \in multigrid(call.acqu_optimize_restarts)
              /\ method \in ValidMethods =>
                    /\ pc = "done"
                    /\ Len(last.samples) = call.acqu_optimize_restarts
                    /\ Len(last.starts) >= 1
              /\ method \notin ValidMethods =>
                    /\ pc = "error"
                    /\ last.samples = << >>
                    /\ last.starts = << >>
                    /\ ret = None
    /\ (call.fn \in Strategies /\ pc # "idle") =>
          LET method == call.acqu_optimize_method
          IN  /\ \A i \in 1..Len(calls) :
                    calls[i].fn = "optimize_acquisition" =>
                       /\ calls[i].family = ExpectedFamily(method)
                       /\ calls[i].sampler = ExpectedSampler(method)
              /\ method \in ValidMethods => pc # "error"
              /\ method \notin ValidMethods =>
                    /\ pc = "error"
                    /\ Len(calls) = 1
                    /\ calls[1].n_samples = 0
                    /\ calls[1].n_minimize = 0
                    /\ loc.X_batch = << >>
                    /\ ret = None

C10_Witness ==
    /\ call.fn = "hybrid_batch_optimization"
    /\ pc = "error"
    /\ call.acqu_optimize_method = "grid"
    /\ calls[1].family = "none"

====
